---------------------------- MODULE Spec2Model ----------------------------
(***************************************************************************)
(* chromokinesis (src/index.ts, lines 1-298): a command line program that  *)
(* loads a mapping of base colors, asks for an output notation, the        *)
(* variant kinds and the step parameters, derives tints, shades and tones  *)
(* of every base color and exports the palette.                            *)
(*                                                                         *)
(* The color library (culori) is outside the repository.  It is modelled   *)
(* on the achromatic axis: a color in the uniform space is its lightness   *)
(* in hundredths of a level, interpolation is linear in that lightness,    *)
(* and formatting quantises to one of the levels 0..MaxLevel and writes    *)
(* the level in the notation of the output mode.  A level the formatter    *)
(* cannot render (the library's "no value" result) is the parameter        *)
(* unrenderable.                                                           *)
(*                                                                         *)
(* A JavaScript number is held as the rational it was rounded from and    *)
(* the integer it was then multiplied by; where the rounding of toFixed(2) *)
(* depends on the double itself, the double is computed digit by digit.    *)
(***************************************************************************)
EXTENDS Integers, Sequences, FiniteSets, TLC

VARIABLES
    pc,                 \* position of the top-level script
    unrenderable,       \* library parameter: the level format cannot render
    file,               \* the colors file as read: [readOk, names, codes]
    baseColors,         \* module-level baseColors: null or the loaded object
    entries,            \* Object.entries(baseColors) taken at line 115
    bi,                 \* index of the entry the for-of loop is at
    colorOutputFormat,  \* line 223
    hueVariants,        \* line 232
    calculationMethod,  \* line 242
    message,            \* what the last validate call returned
    entered,            \* the text the prompt accepted
    colorAmount,        \* first argument of generatePalette
    mixAmount,          \* second argument of generatePalette
    colorName,          \* computeVariants: parameter
    hue,                \* computeVariants: oklch(colorCode)
    result,             \* computeVariants: result
    i,                  \* computeVariants: outer loop index
    vi,                 \* computeVariants: position in hueVariants
    stats,              \* bookkeeping of the current computeVariants call
    calls,              \* names computeVariants was invoked for, in order
    files,              \* files written by the export
    prev,               \* what the previous run left (two-run specifications)
    runNo               \* 1, or 2 in the rerun

vars == <<pc, unrenderable, file, baseColors, entries, bi, colorOutputFormat,
          hueVariants, calculationMethod, message, entered, colorAmount,
          mixAmount, colorName, hue, result, i, vi, stats, calls, files,
          prev, runNo>>

-----------------------------------------------------------------------------
(* Bounds of the model *)

MaxLevel == 4
MaxColorAmount == 3
MaxLen == 4

-----------------------------------------------------------------------------
(* Program constants *)

MaxVariants == 100
MinVariants == 1
MaxImpliedAmount == 100

-----------------------------------------------------------------------------
(* JavaScript numbers *)

\* A number is NaN or the double the code holds.  The double is written by
\* what it was computed from, fl(fl(num / den) * times), fl the rounding to
\* the nearest double (parseFloat, a literal and one division each round
\* num / den once, and the products of lines 83 and 100 multiply such a
\* double by an integer and round again; den = 0 is Infinity of the sign of
\* num), or by 1 over such a quotient, fl(1 / fl(under / over)), or, when
\* 32-bit integers cannot write it so, by its binary digits: digits * 2^exp,
\* the digits running from a one to a one, negated when neg.  DoubleOf gives
\* the binary digits of each of them.
NaN == [nan |-> TRUE, num |-> 0, den |-> 1, times |-> 1]
Num(n, d) == [nan |-> FALSE, num |-> n, den |-> d, times |-> 1]
Binary(neg, bits, exp) ==
    [nan |-> FALSE, neg |-> neg, bits |-> bits, exp |-> exp]

Infinity(neg) == Num(IF neg THEN 0 - 1 ELSE 1, 0)

\* 0 and -0, which is 0 * -1
Zero(neg) ==
    [nan |-> FALSE, num |-> 0, den |-> 1, times |-> IF neg THEN 0 - 1 ELSE 1]

\* 1 / (under / over), the quotient a double first: under is not zero, over
\* is positive, no multiple of under, and the quotient is no double itself
Reciprocal(n, d) == [nan |-> FALSE, under |-> n, over |-> d]

IsBinary(x) == "bits" \in DOMAIN x
IsReciprocal(x) == "over" \in DOMAIN x
IsQuotient(x) == "num" \in DOMAIN x
IsInfinite(x) == ~x.nan /\ IsQuotient(x) /\ x.den = 0
IsZero(x) ==
    ~x.nan /\ IsQuotient(x) /\ x.den # 0 /\ (x.num = 0 \/ x.times = 0)
IsNegative(x) ==
    IF IsBinary(x) THEN x.neg
    ELSE IF IsReciprocal(x) THEN x.under < 0
    ELSE (x.num < 0) # (x.times < 0)

Abs(n) == IF n < 0 THEN 0 - n ELSE n

\* an integer below 2^31 in magnitude, written as such
IsInteger(x) == ~x.nan /\ IsQuotient(x) /\ x.den = 1 /\ x.times = 1

\* a quotient of integers rounded once, or 1 over one where that is no
\* integer: it is an integer or at least 1/2^31 away from one, more than
\* the roundings move it, so it is compared with integers as it stands
IsNearQuotient(x) ==
    ~x.nan /\ (IsReciprocal(x) \/ (IsQuotient(x) /\ x.times = 1 /\ x.den # 0))

\* the integer at or next below a near quotient
Whole(x) ==
    IF IsReciprocal(x)
    THEN (IF x.under < 0 THEN 0 - x.over ELSE x.over) \div Abs(x.under)
    ELSE x.num \div x.den

\* Body of the value, the value computed once however often Body reads it
Of(value, Body(_)) == CHOOSE out \in {Body(v) : v \in {value}} : TRUE

Max(m, n) == IF m > n THEN m ELSE n
Min(m, n) == IF m < n THEN m ELSE n

\* the binary digits of a natural number, most significant first
BitsOf(n) ==
    Of(n, LAMBDA x :
    Of(<<x, Cardinality({j \in 0..30 : 2^j <= x})>>, LAMBDA v :
        [j \in 1..v[2] |-> (v[1] \div 2^(v[2] - j)) % 2]))

\* the digits without their leading zeros
Significant(digits) ==
    Of(digits, LAMBDA v :
        IF \A j \in 1..Len(v) : v[j] = 0 THEN <<>>
        ELSE SubSeq(v, CHOOSE j \in 1..Len(v) :
                           v[j] = 1 /\ \A k \in 1..(j - 1) : v[k] = 0,
                    Len(v)))

\* the digits from their first one to their last one, and the exponent that
\* then goes with them
Trim(digits, exp) ==
    Of(Significant(digits), LAMBDA v :
        IF v = <<>> THEN [bits |-> <<>>, exp |-> 0]
        ELSE Of(CHOOSE j \in 1..Len(v) :
                    v[j] = 1 /\ \A k \in (j + 1)..Len(v) : v[k] = 0,
                LAMBDA last : [bits |-> SubSeq(v, 1, last),
                               exp  |-> exp + (Len(v) - last)]))

\* the digits plus one: the last zero becomes one and the ones after it zero
Increment(digits) ==
    Of(digits, LAMBDA v :
        IF \A j \in 1..Len(v) : v[j] = 1
        THEN <<1>> \o [j \in 1..Len(v) |-> 0]
        ELSE Of(CHOOSE j \in 1..Len(v) :
                    v[j] = 0 /\ \A k \in (j + 1)..Len(v) : v[k] = 1,
                LAMBDA last :
                    [j \in 1..Len(v) |->
                        IF j < last THEN v[j]
                        ELSE IF j = last THEN 1 ELSE 0]))

Zeros(n) == [k \in 1..n |-> 0]

\* Naturals of any size are sequences of limbs, digits in base 2^LimbBits,
\* the least significant first and the most significant one not zero
LimbBits == 10
Base == 2^LimbBits

\* the limbs of binary digits: each the number its LimbBits digits write
LimbsOfBits(bits) ==
    Of(Significant(bits), LAMBDA v :
    Of((Len(v) + LimbBits - 1) \div LimbBits, LAMBDA count :
    Of(Zeros(count * LimbBits - Len(v)) \o v, LAMBDA d :
        [k \in 1..count |->
            Of((count - k) * LimbBits, LAMBDA at :
                d[at + 1] * 512 + d[at + 2] * 256 + d[at + 3] * 128
                    + d[at + 4] * 64 + d[at + 5] * 32 + d[at + 6] * 16
                    + d[at + 7] * 8 + d[at + 8] * 4 + d[at + 9] * 2
                    + d[at + 10])])))

\* the binary digits of limbs
BitsOfLimbs(limbs) ==
    Of(limbs, LAMBDA v :
        Significant([j \in 1..(Len(v) * LimbBits) |->
            (v[Len(v) - (j - 1) \div LimbBits]
                 \div 2^(LimbBits - 1 - ((j - 1) % LimbBits))) % 2]))

\* the limb of Base^(k-1)
Limb(limbs, k) == IF k >= 1 /\ k <= Len(limbs) THEN limbs[k] ELSE 0

\* the number written by at most 30 binary digits
BitsValue(bits) ==
    Of(LimbsOfBits(bits), LAMBDA v :
        Limb(v, 1) + Limb(v, 2) * Base + Limb(v, 3) * Base * Base)

\* the limbs without their most significant zeros
Strip(limbs) ==
    Of(limbs, LAMBDA v :
        IF \A k \in 1..Len(v) : v[k] = 0 THEN <<>>
        ELSE SubSeq(v, 1, CHOOSE k \in 1..Len(v) :
                              v[k] # 0 /\ \A m \in (k + 1)..Len(v) : v[m] = 0))

\* every entry keeps what is below Base and hands the rest to the next one
Spill(cells) ==
    Of(cells, LAMBDA v :
        [k \in 1..(Len(v) + 1) |->
            (Limb(v, k) % Base) + (Limb(v, k - 1) \div Base)])

\* entries below 2^31 as limbs: spilled twice they are below 2 * Base, and
\* then an entry takes a carry when an entry before it is Base or more and
\* those between them are all Base - 1
Normal(cells) ==
    Of(Spill(Spill(cells)), LAMBDA v :
        Strip([k \in 1..(Len(v) + 1) |->
                  (Limb(v, k)
                      + (IF \E j \in 1..(k - 1) :
                                /\ v[j] >= Base
                                /\ \A m \in (j + 1)..(k - 1) : v[m] = Base - 1
                         THEN 1 ELSE 0)) % Base]))

\* the sum of a[j] * b[k + 1 - j] for j from lo to hi
RECURSIVE ColumnSum(_, _, _, _, _)
ColumnSum(a, b, k, lo, hi) ==
    IF lo > hi THEN 0
    ELSE IF lo = hi THEN a[lo] * b[k + 1 - lo]
    ELSE ColumnSum(a, b, k, lo, (lo + hi) \div 2)
             + ColumnSum(a, b, k, (lo + hi) \div 2 + 1, hi)

BigTimes(a, b) ==
    Of(<<a, b>>, LAMBDA v :
        IF v[1] = <<>> \/ v[2] = <<>> THEN <<>>
        ELSE Normal([k \in 1..(Len(v[1]) + Len(v[2]) - 1) |->
                 ColumnSum(v[1], v[2], k, Max(1, k + 1 - Len(v[2])),
                           Min(k, Len(v[1])))]))

BigPlus(a, b) ==
    Of(<<a, b>>, LAMBDA v :
        Normal([k \in 1..Max(Len(v[1]), Len(v[2])) |->
                   Limb(v[1], k) + Limb(v[2], k)]))

\* -1, 0, 1 as a is below, at or above b
BigCompare(a, b) ==
    Of(<<a, b>>, LAMBDA v :
        IF Len(v[1]) # Len(v[2])
        THEN (IF Len(v[1]) < Len(v[2]) THEN 0 - 1 ELSE 1)
        ELSE IF v[1] = v[2] THEN 0
        ELSE Of(CHOOSE k \in 1..Len(v[1]) :
                    /\ v[1][k] # v[2][k]
                    /\ \A m \in (k + 1)..Len(v[1]) : v[1][m] = v[2][m],
                LAMBDA top : IF v[1][top] < v[2][top] THEN 0 - 1 ELSE 1))

\* a - b, a >= b: a limb borrows when a limb before it is below that of b
\* and those between them are equal
BigMinus(a, b) ==
    Of(<<a, b>>, LAMBDA w :
    Of([k \in 1..Len(w[1]) |-> w[1][k] - Limb(w[2], k)], LAMBDA v :
        Strip([k \in 1..Len(v) |->
            (v[k] + Base
                - (IF \E j \in 1..(k - 1) :
                          /\ v[j] < 0
                          /\ \A m \in (j + 1)..(k - 1) : v[m] = 0
                   THEN 1 ELSE 0)) % Base])))

\* r \div e and r % e, r below e * Base: the quotient of the leading limbs,
\* which is no more than the quotient and at most two less, then put right
QuotientLimb(r, e) ==
    Of(<<r, e, Len(e)>>, LAMBDA v :
    Of((Limb(v[1], v[3] + 1) * Base * Base + Limb(v[1], v[3]) * Base
            + Limb(v[1], v[3] - 1))
           \div (v[2][v[3]] * Base + Limb(v[2], v[3] - 1) + 1),
       LAMBDA guess :
    Of(BigMinus(v[1], BigTimes(v[2], Strip(<<guess>>))), LAMBDA rest :
        IF BigCompare(rest, v[2]) < 0 THEN [q |-> guess, rest |-> rest]
        ELSE Of(BigMinus(rest, v[2]), LAMBDA less :
                IF BigCompare(less, v[2]) < 0
                THEN [q |-> guess + 1, rest |-> less]
                ELSE [q |-> guess + 2, rest |-> BigMinus(less, v[2])]))))

\* r \div d and r % d, r below d * Base^(count), limb by limb from the most
\* significant one
RECURSIVE BigDivide(_, _, _)
BigDivide(r, d, count) ==
    IF count = 0 THEN [limbs |-> <<>>, rest |-> r]
    ELSE Of(QuotientLimb(r, Zeros(count - 1) \o d), LAMBDA step :
         Of(BigDivide(step.rest, d, count - 1), LAMBDA tail :
            [limbs |-> Append(tail.limbs, step.q), rest |-> tail.rest]))

MantissaBits == 53

\* the exponent of the last digit of the smallest double, 2^-1074, and the
\* power of two no double reaches, 2^1024
MinExponent == 0 - 1074
MaxExponent == 1024

\* round to nearest, ties to even: digits * 2^exp, the digits beginning with
\* a one, inexact when digits were already dropped below the last one, kept
\* to MantissaBits digits and to none below 2^MinExponent
RoundToDouble(bits, exp, inexact) ==
    Of(bits, LAMBDA b :
    Of(<<b, Min(MantissaBits, Len(b) + exp - MinExponent)>>, LAMBDA v :
        IF v[2] < 0 THEN Trim(<<>>, 0)
        ELSE IF Len(v[1]) <= v[2] THEN Trim(v[1], exp)
        ELSE LET kept   == SubSeq(v[1], 1, v[2])
                 half   == v[1][v[2] + 1]
                 sticky == \/ inexact
                           \/ \E k \in (v[2] + 2)..Len(v[1]) : v[1][k] = 1
                 odd    == v[2] > 0 /\ v[1][v[2]] = 1
                 up     == half = 1 /\ (sticky \/ odd)
             IN  Trim(IF up THEN Increment(kept) ELSE kept,
                      exp + (Len(v[1]) - v[2]))))

\* the double nearest to n / d * 2^shift, n and d digits that begin with a
\* one: n or d is shifted until the quotient has two or three digits more
\* than a mantissa, and what the division leaves makes it inexact
DivideBits(n, d, shift) ==
    Of(<<n, d, (MantissaBits + 2) + Len(d) - Len(n)>>, LAMBDA v :
    Of(<<LimbsOfBits(v[1] \o Zeros(Max(v[3], 0))),
         LimbsOfBits(v[2] \o Zeros(Max(0 - v[3], 0)))>>, LAMBDA p :
    Of(BigDivide(p[1], p[2], 6), LAMBDA q :
        RoundToDouble(BitsOfLimbs(q.limbs), shift - v[3], q.rest # <<>>))))

\* the magnitude of the double of a finite number, as digits * 2^exp
RECURSIVE DoubleOf(_)
DoubleOf(x) ==
    IF IsBinary(x) THEN [bits |-> x.bits, exp |-> x.exp]
    ELSE IF IsReciprocal(x)
    THEN Of(DoubleOf(Num(x.under, x.over)), LAMBDA v :
            DivideBits(<<1>>, v.bits, 0 - v.exp))
    ELSE IF x.num = 0 \/ x.times = 0 THEN Trim(<<>>, 0)
    ELSE Of(DivideBits(BitsOf(Abs(x.num)), BitsOf(x.den), 0), LAMBDA factor :
            IF x.times = 1 THEN factor
            ELSE RoundToDouble(
                     BitsOfLimbs(BigTimes(LimbsOfBits(factor.bits),
                                          LimbsOfBits(BitsOf(Abs(x.times))))),
                     factor.exp, FALSE))

\* the number of a magnitude digits * 2^exp and a sign: written with
\* integers when those it takes are below 2^30
AsNumber(neg, double) ==
    Of(double, LAMBDA v :
        IF v.bits = <<>> THEN Zero(neg)
        ELSE IF Len(v.bits) + v.exp > MaxExponent THEN Infinity(neg)
        ELSE IF Len(v.bits) > 30 \/ v.exp < 0 - 29 \/ Len(v.bits) + v.exp > 30
        THEN Binary(neg, v.bits, v.exp)
        ELSE Of(BitsValue(v.bits), LAMBDA m :
                Num((IF neg THEN 0 - m ELSE m) * 2^Max(v.exp, 0),
                    2^Max(0 - v.exp, 0))))

\* -1, 0, 1 as the magnitude a is below, at or above the magnitude b, both
\* digits * 2^exp that begin with a one
CompareDoubles(a, b) ==
    Of(<<a, b>>, LAMBDA v :
        IF Len(v[1].bits) + v[1].exp # Len(v[2].bits) + v[2].exp
        THEN (IF Len(v[1].bits) + v[1].exp < Len(v[2].bits) + v[2].exp
              THEN 0 - 1 ELSE 1)
        ELSE Of(<<v[1].bits \o Zeros(Max(Len(v[2].bits) - Len(v[1].bits), 0)),
                  v[2].bits \o Zeros(Max(Len(v[1].bits) - Len(v[2].bits), 0))>>,
                LAMBDA p :
                    IF p[1] = p[2] THEN 0
                    ELSE Of(CHOOSE j \in 1..Len(p[1]) :
                                /\ p[1][j] # p[2][j]
                                /\ \A k \in 1..(j - 1) : p[1][k] = p[2][k],
                            LAMBDA first :
                                IF p[1][first] < p[2][first] THEN 0 - 1
                                ELSE 1)))

\* -1, 0, 1 as a number that is not NaN is below, at or above zero
Sign(x) ==
    IF IsZero(x) THEN 0 ELSE IF IsNegative(x) THEN 0 - 1 ELSE 1

\* -1, 0, 1 as a is below, at or above b, neither NaN
Compare(a, b) ==
    Of(<<a, b>>, LAMBDA v :
        IF IsInteger(v[2]) /\ IsNearQuotient(v[1])
        THEN (IF Whole(v[1]) < v[2].num THEN 0 - 1
              ELSE IF Whole(v[1]) > v[2].num THEN 1
              ELSE IF IsQuotient(v[1]) /\ v[1].num % v[1].den = 0 THEN 0
              ELSE 1)
        ELSE IF IsInteger(v[1]) /\ IsNearQuotient(v[2])
        THEN (IF Whole(v[2]) < v[1].num THEN 1
              ELSE IF Whole(v[2]) > v[1].num THEN 0 - 1
              ELSE IF IsQuotient(v[2]) /\ v[2].num % v[2].den = 0 THEN 0
              ELSE 0 - 1)
        ELSE IF Sign(v[1]) # Sign(v[2])
        THEN (IF Sign(v[1]) < Sign(v[2]) THEN 0 - 1 ELSE 1)
        ELSE IF Sign(v[1]) = 0 THEN 0
        ELSE IF IsInfinite(v[1]) \/ IsInfinite(v[2])
        THEN (IF IsInfinite(v[1]) /\ IsInfinite(v[2]) THEN 0
              ELSE IF IsInfinite(v[1]) THEN Sign(v[1])
              ELSE 0 - Sign(v[1]))
        ELSE Sign(v[1]) * CompareDoubles(DoubleOf(v[1]), DoubleOf(v[2])))

Lt(a, b) == ~a.nan /\ ~b.nan /\ Compare(a, b) < 0
Le(a, b) == ~a.nan /\ ~b.nan /\ Compare(a, b) <= 0
Gt(a, b) == Lt(b, a)
Ge(a, b) == Le(b, a)

\* a * b, a a double that is not a product and b an integer
Mul(a, b) ==
    IF a.nan \/ b.nan THEN NaN
    ELSE IF ~IsQuotient(a)
    THEN IF IsZero(b) THEN Zero(IsNegative(a) # IsNegative(b))
         ELSE Of(DoubleOf(a), LAMBDA v :
                 AsNumber(IsNegative(a) # IsNegative(b),
                          RoundToDouble(
                              BitsOfLimbs(
                                  BigTimes(LimbsOfBits(v.bits),
                                           LimbsOfBits(BitsOf(Abs(b.num))))),
                              v.exp, FALSE)))
    ELSE IF (IsZero(a) /\ ~IsInfinite(b)) \/ (IsZero(b) /\ ~IsInfinite(a))
    THEN Zero(IsNegative(a) # IsNegative(b))
    ELSE [nan |-> FALSE, num |-> a.num, den |-> a.den * b.den,
          times |-> a.times * b.num * b.times]

\* a positive integer without its factors 2
OddPart(d) == d \div 2^Cardinality({j \in 1..30 : d % 2^j = 0})

\* 1 / a; 1 / 0 is Infinity.  A quotient whose denominator has only the
\* factors 2 left is the double itself and the quotient turned over is its
\* inverse rounded once.
Inverse(a) ==
    IF a.nan THEN NaN
    ELSE IF IsInfinite(a) THEN Zero(IsNegative(a))
    ELSE IF IsZero(a) THEN Infinity(IsNegative(a))
    ELSE IF IsInteger(a)
    THEN Num(IF a.num < 0 THEN 0 - 1 ELSE 1, Abs(a.num))
    ELSE IF IsQuotient(a) /\ a.times = 1 /\ Abs(a.num) % OddPart(a.den) = 0
    THEN Num((IF a.num < 0 THEN 0 - 1 ELSE 1) * (a.den \div OddPart(a.den)),
             Abs(a.num) \div OddPart(a.den))
    ELSE IF IsQuotient(a) /\ a.times = 1 /\ a.den % Abs(a.num) # 0
    THEN Reciprocal(a.num, a.den)
    ELSE Of(DoubleOf(a), LAMBDA v :
            AsNumber(IsNegative(a), DivideBits(<<1>>, v.bits, 0 - v.exp)))

\* a + 1: an integer that stays below 2^30 as it stands, any other double
\* with its digits and those of 1 brought to the same exponent
PlusOne(a) ==
    IF a.nan \/ IsInfinite(a) THEN a
    ELSE IF IsZero(a) THEN Num(1, 1)
    ELSE IF IsInteger(a) /\ Abs(a.num) < 2^30 THEN Num(a.num + 1, 1)
    ELSE Of(DoubleOf(a), LAMBDA v :
         Of(<<LimbsOfBits(v.bits \o Zeros(Max(v.exp, 0))),
              LimbsOfBits(<<1>> \o Zeros(Max(0 - v.exp, 0))),
              Min(v.exp, 0)>>, LAMBDA p :
            IF ~IsNegative(a)
            THEN AsNumber(FALSE,
                          RoundToDouble(BitsOfLimbs(BigPlus(p[1], p[2])),
                                        p[3], FALSE))
            ELSE IF BigCompare(p[1], p[2]) > 0
            THEN AsNumber(TRUE,
                          RoundToDouble(BitsOfLimbs(BigMinus(p[1], p[2])),
                                        p[3], FALSE))
            ELSE AsNumber(FALSE,
                          RoundToDouble(BitsOfLimbs(BigMinus(p[2], p[1])),
                                        p[3], FALSE))))

\* Math.floor
Floor(a) ==
    IF a.nan \/ IsInfinite(a) THEN a
    ELSE IF IsNearQuotient(a) THEN Num(Whole(a), 1)
    ELSE Of(DoubleOf(a), LAMBDA v :
            IF v.exp >= 0 THEN AsNumber(IsNegative(a), v)
            ELSE Of(SubSeq(v.bits, 1, Len(v.bits) + v.exp), LAMBDA whole :
                    AsNumber(IsNegative(a),
                             Trim(IF IsNegative(a) THEN Increment(whole)
                                  ELSE whole, 0))))

\* the multiple of 1/100 nearest to the magnitude digits * 2^exp, the larger
\* one when it lies halfway, in hundredths and as digits
Hundredths(double) ==
    Of(<<BitsOfLimbs(BigTimes(LimbsOfBits(double.bits), <<100>>)),
         double.exp>>, LAMBDA v :
        IF v[2] >= 0 THEN v[1] \o Zeros(v[2])
        ELSE Of(Len(v[1]) + v[2], LAMBDA point :
                Of(SubSeq(v[1], 1, point), LAMBDA whole :
                    IF point >= 0 /\ v[1][point + 1] = 1
                    THEN Increment(whole) ELSE whole)))

\* +(x).toFixed(2): the multiple of 1/100 nearest to the double, the one of
\* larger magnitude when the double lies halfway.  The double and the
\* quotient it was rounded from are on the same side of every k / 200 they
\* are not at, so the quotient is rounded where it is at none and its
\* integers are small.
ToFixed2(x) ==
    Of(x, LAMBDA v :
        IF v.nan \/ IsInfinite(v) THEN v
        ELSE IF IsZero(v) THEN Num(0, 100)
        ELSE IF /\ IsQuotient(v) /\ v.times # 0
                /\ Abs(v.num) <= 10000000 \div Abs(v.times)
                /\ ~ (/\ (200 * Abs(v.num * v.times)) % v.den = 0
                      /\ ((200 * Abs(v.num * v.times)) \div v.den) % 2 = 1)
        THEN Of(((200 * Abs(v.num * v.times)) \div v.den + 1) \div 2,
                LAMBDA c : IF c = 0 /\ IsNegative(v) THEN Zero(TRUE)
                           ELSE Num(IF IsNegative(v) THEN 0 - c ELSE c, 100))
        ELSE Of(Hundredths(DoubleOf(v)), LAMBDA c :
                IF c = <<>> /\ IsNegative(v) THEN Zero(TRUE)
                ELSE IF Len(c) <= 30
                THEN Num(IF IsNegative(v) THEN 0 - BitsValue(c)
                         ELSE BitsValue(c), 100)
                ELSE AsNumber(IsNegative(v),
                              DivideBits(c, BitsOf(100), 0))))

\* template-literal conversion of a number that is a multiple of 1/100
NumberToString(x) ==
    IF x.nan THEN "NaN"
    ELSE LET c == (100 * x.num * x.times) \div x.den
             q == c \div 100
             r == c % 100
         IN  IF r = 0 THEN ToString(q)
             ELSE IF r % 10 = 0 THEN ToString(q) \o "." \o ToString(r \div 10)
             ELSE IF r < 10 THEN ToString(q) \o ".0" \o ToString(r)
             ELSE ToString(q) \o "." \o ToString(r)

-----------------------------------------------------------------------------
(* Text of a prompt, parseInt and parseFloat *)

Digits == <<"0", "1", "2", "3", "4", "5", "6", "7", "8", "9">>

Char(s, k) == IF k >= 1 /\ k <= Len(s) THEN SubSeq(s, k, k) ELSE ""

IsDigit(c) == \E d \in 1..10 : Digits[d] = c

DigitValue(c) == (CHOOSE d \in 1..10 : Digits[d] = c) - 1

\* number of consecutive decimal digits of s from position k on
DigitRun(s, k) ==
    Of(<<s, k>>, LAMBDA v :
        IF v[2] > Len(v[1]) THEN 0
        ELSE (CHOOSE j \in v[2]..(Len(v[1]) + 1) :
                  /\ ~IsDigit(Char(v[1], j))
                  /\ \A m \in v[2]..(j - 1) : IsDigit(Char(v[1], m))) - v[2])

\* value of the n digits of s from position k on
RECURSIVE DigitsValue(_, _, _)
DigitsValue(s, k, n) ==
    IF n = 0 THEN 0
    ELSE 10 * DigitsValue(s, k, n - 1) + DigitValue(Char(s, k + n - 1))

RECURSIVE Pow10(_)
Pow10(n) == IF n = 0 THEN 1 ELSE 10 * Pow10(n - 1)

HexDigits ==
    <<"0", "1", "2", "3", "4", "5", "6", "7", "8", "9",
      "a", "b", "c", "d", "e", "f">>

UpperHexDigits ==
    <<"0", "1", "2", "3", "4", "5", "6", "7", "8", "9",
      "A", "B", "C", "D", "E", "F">>

IsHexDigit(c) == \E d \in 1..16 : HexDigits[d] = c \/ UpperHexDigits[d] = c

\* number of consecutive hexadecimal digits of s from position k on
HexRun(s, k) ==
    Of(<<s, k>>, LAMBDA v :
        IF v[2] > Len(v[1]) THEN 0
        ELSE (CHOOSE j \in v[2]..(Len(v[1]) + 1) :
                  /\ ~IsHexDigit(Char(v[1], j))
                  /\ \A m \in v[2]..(j - 1) : IsHexDigit(Char(v[1], m)))
                 - v[2])

\* the binary digits of the n hexadecimal digits of s from position k on
HexBits(s, k, n) ==
    Of(<<s, k>>, LAMBDA v :
        [j \in 1..(4 * n) |->
            Of(Char(v[1], v[2] + (j - 1) \div 4), LAMBDA c :
                (((CHOOSE d \in 1..16 :
                       HexDigits[d] = c \/ UpperHexDigits[d] = c) - 1)
                     \div 2^(3 - ((j - 1) % 4))) % 2)])

\* number of consecutive zeros of s from position k on
ZeroRun(s, k) ==
    Of(<<s, k>>, LAMBDA v :
        IF v[2] > Len(v[1]) THEN 0
        ELSE (CHOOSE j \in v[2]..(Len(v[1]) + 1) :
                  /\ Char(v[1], j) # "0"
                  /\ \A m \in v[2]..(j - 1) : Char(v[1], m) = "0") - v[2])

\* 10^e in limbs, by squaring
RECURSIVE BigPow10(_)
BigPow10(e) ==
    IF e <= 9 THEN LimbsOfBits(BitsOf(Pow10(e)))
    ELSE Of(BigPow10(e \div 2), LAMBDA half :
            IF e % 2 = 0 THEN BigTimes(half, half)
            ELSE BigTimes(BigTimes(half, half), <<10>>))

\* the n decimal digits of s from position k on in limbs, by halves
RECURSIVE DecimalLimbs(_, _, _)
DecimalLimbs(s, k, n) ==
    IF n <= 9 THEN LimbsOfBits(BitsOf(DigitsValue(s, k, n)))
    ELSE Of(<<k, n - n \div 2, n \div 2>>, LAMBDA at :
            BigPlus(BigTimes(DecimalLimbs(s, at[1], at[2]), BigPow10(at[3])),
                    DecimalLimbs(s, at[1] + at[2], at[3])))

\* the double nearest to digits * 10^e, digits a text of decimal digits: a
\* number of 309 digits or more is beyond every double and one below 10^-324
\* is nearer to zero than to any other double.  The zeros the digits begin
\* and end with are left out.
Decimal(neg, digits, e) ==
    Of(digits, LAMBDA text :
    Of(<<text, ZeroRun(text, 1),
         Len(text) - (CHOOSE j \in 0..Len(text) :
                          /\ Char(text, j) # "0"
                          /\ \A m \in (j + 1)..Len(text) :
                                 Char(text, m) = "0")>>,
       LAMBDA v :
        IF v[2] = Len(v[1]) THEN Zero(neg)
        ELSE Of(<<Len(v[1]) - v[2] - v[3], e + v[3]>>, LAMBDA at :
             IF at[1] + at[2] > 309 THEN Infinity(neg)
             ELSE IF at[1] + at[2] < 0 - 323 THEN Zero(neg)
             ELSE IF at[1] <= 9 /\ at[2] >= 0 /\ at[1] + at[2] <= 9
             THEN Num((IF neg THEN 0 - 1 ELSE 1)
                          * DigitsValue(v[1], v[2] + 1, at[1]) * Pow10(at[2]),
                      1)
             ELSE IF at[1] <= 9 /\ at[2] < 0 /\ at[2] >= 0 - 9
             THEN Num((IF neg THEN 0 - 1 ELSE 1)
                          * DigitsValue(v[1], v[2] + 1, at[1]),
                      Pow10(0 - at[2]))
             ELSE IF at[2] >= 0
             THEN AsNumber(neg,
                      RoundToDouble(
                          BitsOfLimbs(
                              BigTimes(DecimalLimbs(v[1], v[2] + 1, at[1]),
                                       BigPow10(at[2]))),
                          0, FALSE))
             ELSE AsNumber(neg,
                      DivideBits(
                          BitsOfLimbs(DecimalLimbs(v[1], v[2] + 1, at[1])),
                          BitsOfLimbs(BigPow10(0 - at[2])), 0)))))

\* white space a text can hold before its number: blank, tab, line feed,
\* carriage return, form feed, vertical tab (U+000B), no-break space
\* (U+00A0), byte order mark (U+FEFF) and ogham space mark (U+1680).  The
\* other white space of the language (U+2000 to U+200A, U+2028, U+2029,
\* U+202F, U+205F, U+3000) cannot be written in a string of this notation.
WhiteSpace == {" ", "\t", "\n", "\r", "\f", "", " ", "﻿", " "}

\* position of the first character of s from k on that is no white space
SkipWhiteSpace(s, k) ==
    Of(<<s, k>>, LAMBDA v :
        IF v[2] > Len(v[1]) THEN v[2]
        ELSE CHOOSE j \in v[2]..(Len(v[1]) + 1) :
                 /\ Char(v[1], j) \notin WhiteSpace
                 /\ \A m \in v[2]..(j - 1) : Char(v[1], m) \in WhiteSpace)

HasSign(s, k) == Char(s, k) \in {"-", "+"}

\* parseInt(s), no radix given: white space, an optional sign, then 0x or 0X
\* and the longest run of hexadecimal digits, or the longest run of decimal
\* digits; NaN when there is no digit
ParseInt(s) ==
    Of(s, LAMBDA text :
    Of(SkipWhiteSpace(text, 1), LAMBDA at :
    Of(IF HasSign(text, at) THEN at + 1 ELSE at, LAMBDA start :
        IF Char(text, start) = "0" /\ Char(text, start + 1) \in {"x", "X"}
        THEN Of(HexRun(text, start + 2), LAMBDA h :
                IF h = 0 THEN NaN
                ELSE AsNumber(Char(text, at) = "-",
                              RoundToDouble(
                                  Significant(HexBits(text, start + 2, h)),
                                  0, FALSE)))
        ELSE Of(DigitRun(text, start), LAMBDA n :
                IF n = 0 THEN NaN
                ELSE Decimal(Char(text, at) = "-",
                             SubSeq(text, start, start + n - 1), 0)))))

\* parseFloat(s): white space, an optional sign, then Infinity, or digits
\* with an optional point and digits and an optional exponent; NaN when
\* there is no digit.  An exponent of more than 6 digits is taken as
\* 1000000: beyond it every number is Infinity or zero.
ParseFloat(s) ==
    Of(s, LAMBDA text :
    Of(SkipWhiteSpace(text, 1), LAMBDA at :
    Of(IF HasSign(text, at) THEN at + 1 ELSE at, LAMBDA start :
    Of(DigitRun(text, start), LAMBDA a :
    Of(IF Char(text, start + a) = "."
       THEN <<DigitRun(text, start + a + 1),
              start + a + 1 + DigitRun(text, start + a + 1)>>
       ELSE <<0, start + a>>, LAMBDA b :
    Of(IF HasSign(text, b[2] + 1) THEN b[2] + 2 ELSE b[2] + 1,
       LAMBDA efirst :
    Of(IF Char(text, b[2]) \in {"e", "E"} THEN DigitRun(text, efirst) ELSE 0,
       LAMBDA en :
    Of(IF en = 0 THEN 0
       ELSE IF en - ZeroRun(text, efirst) > 6 THEN 1000000
       ELSE DigitsValue(text, efirst, en), LAMBDA size :
        IF /\ Len(text) >= start + 7
           /\ SubSeq(text, start, start + 7) = "Infinity"
        THEN Infinity(Char(text, at) = "-")
        ELSE IF a + b[1] = 0 THEN NaN
        ELSE Decimal(Char(text, at) = "-",
                     SubSeq(text, start, start + a - 1)
                         \o (IF b[1] = 0 THEN ""
                             ELSE SubSeq(text, start + a + 1,
                                         start + a + b[1])),
                     (IF Char(text, b[2] + 1) = "-" THEN 0 - size ELSE size)
                         - b[1])))))))))

Alphabet == {"0", "1", "5", ".", "a", "-", "e", "x", " "}

\* every text of at most n characters of the alphabet
RECURSIVE TextsUpTo(_)
TextsUpTo(n) ==
    IF n = 0 THEN {""}
    ELSE LET shorter == TextsUpTo(n - 1)
         IN  shorter \cup {t \o c : t \in shorter, c \in Alphabet}

\* the step sizes the generation specifications enter
StepTexts == {"0.5", ".25", "0.34", "abc", "1.5", "0.995"}

\* the texts the prompts are given: every text of at most MaxLen characters
\* of the alphabet, and texts longer than MaxLen, with more digits
\* than an integer holds, below the smallest double, and behind white space
\* that is not of the alphabet (U+000B, U+00A0, U+FEFF, U+1680)
PromptTexts ==
    TextsUpTo(MaxLen) \cup
    {"Infinity", "-Infinity", " 0x10", "0.5e-1", "1e-400", "1e-5",
     "5000000000e-10", "1234567890e-10", "10000000000e-11",
     "2470328230e-333", "0.010752688172043012", "0.010101010101010102",
     "5", "101", "0.5", "0x10", " 5",
     "﻿0.5", "  7"}

\* the counts the generation specifications enter
CountTexts == {ToString(n) : n \in 0..MaxColorAmount} \cup {"x"}

-----------------------------------------------------------------------------
(* The color library, on the achromatic axis *)

Levels == 0..MaxLevel
White == MaxLevel
Black == 0
Gray == MaxLevel \div 2

NoLevel == 0 - 1
NoColor == 0 - 1
Undefined == "undefined"

ColorFormats == {"hex", "rgb", "hsl"}
HueVariantNames == {"tints", "tones", "shades"}

\* the library renders every level, or all but one
Unrenderables == {NoLevel, 1}

\* the notations of a level
HexString(level) == "#" \o ToString(level)
RgbString(level) == "rgb(" \o ToString(level) \o ")"
HslString(level) == "hsl(" \o ToString(level) \o ")"

\* parse(text): the level a color notation denotes, NoLevel for any other text
parse(text) ==
    IF \E l \in Levels : text \in {HexString(l), RgbString(l), HslString(l)}
    THEN CHOOSE l \in Levels :
             text \in {HexString(l), RgbString(l), HslString(l)}
    ELSE NoLevel

\* converter("oklch")(text): the lightness in hundredths of a level
oklch(text) == IF parse(text) = NoLevel THEN NoColor ELSE 100 * parse(text)

\* the level a uniform-space color is rendered as
Quantise(color) == (color + 50) \div 100

formatHex(color, bad) ==
    IF color = NoColor \/ Quantise(color) = bad THEN Undefined
    ELSE HexString(Quantise(color))

formatRgb(color, bad) ==
    IF color = NoColor \/ Quantise(color) = bad THEN Undefined
    ELSE RgbString(Quantise(color))

formatHsl(color, bad) ==
    IF color = NoColor \/ Quantise(color) = bad THEN Undefined
    ELSE HslString(Quantise(color))

\* format(colorOutputFormat)(color), lines 46-50
format(mode, color, bad) ==
    IF mode = "hex" THEN formatHex(color, bad)
    ELSE IF mode = "rgb" THEN formatRgb(color, bad)
    ELSE formatHsl(color, bad)

\* mixColors, lines 75-79: "#ffffff", "#000000", "#636363"
mixColors == [tints  |-> HexString(White),
              shades |-> HexString(Black),
              tones  |-> HexString(Gray)]

MixColorValues == {mixColors[k] : k \in DOMAIN mixColors}

\* blend, lines 72-73: interpolate([base, mix])(amount), amount = num/100
blend(base, mix, amount) ==
    (base * (amount.den - amount.num) + oklch(mix) * amount.num) \div amount.den

-----------------------------------------------------------------------------
(* areColorsValid and getBaseColors, lines 27-44 *)

\* areColorsValid returning from inside the loop after the first color
areColorsValidFirstOnly(colors) ==
    colors = <<>> \/ parse(Head(colors)) # NoLevel

RECURSIVE areColorsValid(_)
areColorsValid(colors) ==
    IF colors = <<>> THEN TRUE
    ELSE IF parse(Head(colors)) = NoLevel THEN FALSE
    ELSE areColorsValid(Tail(colors))

ObjectValues(object) == [k \in 1..Len(object) |-> object[k][2]]

\* an object reference, or null
Null == [null |-> TRUE, object |-> <<>>]
Object(properties) == [null |-> FALSE, object |-> properties]

\* the parsed file, or Null when a value is no color or the read failed
getBaseColors(readOk, parsed) ==
    IF ~readOk THEN Null
    ELSE IF ~areColorsValid(ObjectValues(parsed)) THEN Null
    ELSE Object(parsed)

BaseNames == <<"red", "blue">>

ColorCodes == {HexString(l) : l \in Levels} \cup {"notacolor"}

\* the objects a colors file can hold: the first names, each with some text
ColorFiles ==
    UNION {[1..n -> ColorCodes] : n \in 0..Len(BaseNames)}

\* the text of a colors file: its members <<name, text>> as they are written
FileText(names, codes) == [k \in 1..Len(codes) |-> <<names[k], codes[k]>>]

\* the largest array index, 2^32 - 2, as it is written
MaxArrayIndex == "4294967294"

\* a is before b, or is b: of two canonical digit strings the shorter one is
\* the smaller number, and of two with the same length the one with the
\* smaller digit at the first place they differ
RECURSIVE DigitsLeFrom(_, _, _)
DigitsLeFrom(a, b, k) ==
    IF k > Len(a) THEN TRUE
    ELSE IF Char(a, k) # Char(b, k)
    THEN DigitValue(Char(a, k)) < DigitValue(Char(b, k))
    ELSE DigitsLeFrom(a, b, k + 1)

IndexLe(a, b) ==
    IF Len(a) # Len(b) THEN Len(a) < Len(b) ELSE DigitsLeFrom(a, b, 1)

\* a property name that is an array index, a canonical numeric string from 0
\* to 2^32 - 2: such properties are listed first, in ascending numeric order,
\* by JSON.parse, Object.entries and Object.values
IsArrayIndex(name) ==
    /\ Len(name) > 0
    /\ DigitRun(name, 1) = Len(name)
    /\ (Len(name) = 1 \/ Char(name, 1) # "0")
    /\ IndexLe(name, MaxArrayIndex)

\* the members of a text in the order they are defined: a repeated name
\* keeps its first place and takes its last value
RECURSIVE DefineMembers(_, _, _)
DefineMembers(object, text, k) ==
    IF k > Len(text) THEN object
    ELSE DefineMembers(
             IF \E j \in 1..Len(object) : object[j][1] = text[k][1]
             THEN [j \in 1..Len(object) |->
                      IF object[j][1] = text[k][1] THEN text[k] ELSE object[j]]
             ELSE Append(object, text[k]),
             text, k + 1)

\* the array-index properties of an object in ascending numeric order
RECURSIVE IndexProperties(_)
IndexProperties(object) ==
    LET indexed == SelectSeq(object, LAMBDA p : IsArrayIndex(p[1]))
    IN  IF indexed = <<>> THEN <<>>
        ELSE LET least == CHOOSE p \in {indexed[j] : j \in 1..Len(indexed)} :
                              \A j \in 1..Len(indexed) :
                                  IndexLe(p[1], indexed[j][1])
             IN  <<least>> \o
                 IndexProperties(SelectSeq(object, LAMBDA p : p # least))

\* JSON.parse(data), line 36: the object of a file text, its properties in
\* the order JavaScript enumerates them
JsonParse(text) ==
    LET defined == DefineMembers(<<>>, text, 1)
    IN  IndexProperties(defined) \o
        SelectSeq(defined, LAMBDA p : ~IsArrayIndex(p[1]))

FileObject(codes) == JsonParse(FileText(BaseNames, codes))

-----------------------------------------------------------------------------
(* computeVariants, lines 52-106 *)

\* a value of the baseColors object: the text read, or the variants written
CodeValue(code) == [isCode |-> TRUE, code |-> code, hue |-> "",
                    tints |-> <<>>, shades |-> <<>>, tones |-> <<>>]

VariantsValue(r) == [isCode |-> FALSE, code |-> "", hue |-> r.hue,
                     tints |-> r.tints, shades |-> r.shades, tones |-> r.tones]

\* result before any call of computeVariants
NoResult == [hue |-> "", tints |-> <<>>, shades |-> <<>>, tones |-> <<>>]

\* lines 60-70: result as it is before the loop
InitialResult(code, mode, bad) ==
    LET formattedHue == format(mode, oklch(code), bad)
    IN  [hue    |-> IF formattedHue # Undefined THEN formattedHue ELSE "",
         tints  |-> <<>>,
         shades |-> <<>>,
         tones  |-> <<>>]

\* line 83: +(mixAmount * i).toFixed(2)
roundedMixAmount(amount, step) == ToFixed2(Mul(amount, Num(step, 1)))

\* the test written roundedMixAmount > 1
IsPastEndStrict(rounded) == Gt(rounded, Num(1, 1))

\* line 85: roundedMixAmount >= 1
IsPastEnd(rounded) == Ge(rounded, Num(1, 1))

\* lines 93-96: the colors held by result["shades"]
ShadeColors(r) == {r.shades[k][2] : k \in 1..Len(r.shades)}

\* the dedup condition comparing with the entries of every kind
IsDuplicateSymmetric(formatted, r) ==
    \/ formatted \in MixColorValues
    \/ formatted = r.hue
    \/ \E k \in HueVariantNames : \E e \in 1..Len(r[k]) : r[k][e][2] = formatted

\* lines 90-97: the condition under which a candidate is dropped
IsDuplicate(formatted, r) ==
    \/ formatted \in MixColorValues
    \/ formatted = r.hue
    \/ formatted \in ShadeColors(r)

\* the kind tag used as it is
SingularUnsliced(variant) == variant

\* line 100: variant.slice(0, -1)
Singular(variant) == SubSeq(variant, 1, Len(variant) - 1)

\* line 100: the title of a variant
title(name, variant, rounded) ==
    name \o "-" \o Singular(variant) \o "-"
         \o NumberToString(ToFixed2(Mul(rounded, Num(100, 1))))

\* lines 87-88: the formatted candidate
Candidate(base, variant, rounded, mode, bad) ==
    format(mode, blend(base, mixColors[variant], rounded), bad)

\* the entry put at the front of the list: result[variant]?.unshift(...)
PushFront(r, variant, entry) == [r EXCEPT ![variant] = <<entry>> \o @]

\* lines 101-102: result[variant]?.push({[title]: formatted})
Push(r, variant, entry) == [r EXCEPT ![variant] = Append(@, entry)]

\* what one pass of the inner loop body does with the roundedMixAmount of
\* line 83: "skip" (line 85), "drop" (line 98) or "push" (line 102)
Outcome(rounded, variant, base, r, mode, bad) ==
    IF IsPastEnd(rounded) THEN "skip"
    ELSE IF IsDuplicate(Candidate(base, variant, rounded, mode, bad), r)
    THEN "drop"
    ELSE "push"

\* lines 85-102: result after one pass of the inner loop body
LoopBody(rounded, variant, name, base, r, mode, bad) ==
    IF Outcome(rounded, variant, base, r, mode, bad) = "push"
    THEN Push(r, variant,
              <<title(name, variant, rounded),
                Candidate(base, variant, rounded, mode, bad)>>)
    ELSE r

\* the loop condition written i < colorAmount
LoopRunsBelow(step, amount) == Lt(Num(step, 1), amount)

\* the loop left at the first skipped or dropped candidate
LoopRunsUntilSkip(step, amount) ==
    /\ Le(Num(step, 1), amount)
    /\ \A k \in DOMAIN stats.skipped :
          stats.skipped[k] = 0 /\ stats.dropped[k] = 0

\* line 81: i <= colorAmount
LoopRuns(step, amount) == Le(Num(step, 1), amount)

ZeroPerKind == [k \in HueVariantNames |-> 0]

NoStats == [visited |-> 0, evaluated |-> 0, skipped |-> ZeroPerKind,
            dropped |-> ZeroPerKind,
            steps |-> [k \in HueVariantNames |-> <<>>]]

\* the bookkeeping after one pass of the inner loop body
Count(st, outcome, variant, step) ==
    Of(outcome, LAMBDA o :
        [visited   |-> st.visited + 1,
         evaluated |-> st.evaluated + (IF o = "skip" THEN 0 ELSE 1),
         skipped   |-> IF o = "skip"
                       THEN [st.skipped EXCEPT ![variant] = @ + 1]
                       ELSE st.skipped,
         dropped   |-> IF o = "drop"
                       THEN [st.dropped EXCEPT ![variant] = @ + 1]
                       ELSE st.dropped,
         steps     |-> IF o = "push"
                       THEN [st.steps EXCEPT ![variant] = Append(@, step)]
                       ELSE st.steps])

-----------------------------------------------------------------------------
(* The prompts for the step parameters, lines 256-298 *)

\* validate of the "mixAmount" prompt, lines 262-270
validateMixAmount(value) ==
    Of(ParseFloat(value), LAMBDA valueF :
        IF Le(valueF, Num(0, 1)) \/ Ge(valueF, Num(1, 1))
        THEN "Mix amount has to be greater than 0 and less than 1"
        ELSE IF Gt(Floor(Inverse(valueF)), Num(MaxImpliedAmount, 1))
        THEN "Please choose a larger value, as with this value the amount of colors to generate would be too large"
        ELSE "")

\* validate of the "colorAmount" prompt, lines 283-289
validateColorAmount(value) ==
    Of(ParseInt(value), LAMBDA valueI :
        IF Lt(valueI, Num(MinVariants, 1)) \/ Gt(valueI, Num(MaxVariants, 1))
        THEN "Amount of variants has to be between 1 and 100"
        ELSE "")

\* line 274: Math.floor(1 / mixAmountF)
ColorAmountOfMix(mixAmountF) == Floor(Inverse(mixAmountF))

\* the step size written 1 / colorAmountI
MixAmountOfCountOffByOne(colorAmountI) ==
    Inverse(colorAmountI)

\* line 294: 1 / (colorAmountI + 1)
MixAmountOfCount(colorAmountI) ==
    Inverse(PlusOne(colorAmountI))

-----------------------------------------------------------------------------
(* The export, lines 128-196 *)

ExportTypeLists == {<<"json">>, <<"css">>, <<"json", "css">>, <<"css", "json">>}

VariantKeys == <<"tints", "shades", "tones">>

\* the replacer of line 142 reads value.length of every value it is given
ReplacerThrows(palette) ==
    \E b \in 1..Len(palette) : \E k \in 1..3 :
        \E e \in 1..Len(palette[b][2][VariantKeys[k]]) :
            palette[b][2][VariantKeys[k]][e][2] = Undefined

\* lines 142-144: the properties of one value that the replacer keeps
JsonOfValue(v) ==
    [hue    |-> v.hue,
     tints  |-> v.tints,
     shades |-> v.shades,
     tones  |-> v.tones,
     kept   |-> {k \in {"hue", "tints", "shades", "tones"} : Len(v[k]) # 0}]

JsonOfPalette(palette) ==
    [b \in 1..Len(palette) |-> <<palette[b][1], JsonOfValue(palette[b][2])>>]

\* colors[key] = value on an object whose properties are kept in a sequence
SetProperty(object, key, value) ==
    IF \E k \in 1..Len(object) : object[k][1] = key
    THEN [k \in 1..Len(object) |->
             IF object[k][1] = key THEN <<key, value>> ELSE object[k]]
    ELSE Append(object, <<key, value>>)

\* lines 166-176
RECURSIVE CssOfList(_, _, _)
CssOfList(colors, list, k) ==
    IF k > Len(list) THEN colors
    ELSE CssOfList(SetProperty(colors, "--color-" \o list[k][1], list[k][2]),
                   list, k + 1)

\* lines 161-177
RECURSIVE CssOfVariants(_, _, _)
CssOfVariants(colors, v, k) ==
    IF k > 3 THEN colors
    ELSE CssOfVariants(CssOfList(colors, v[VariantKeys[k]], 1), v, k + 1)

\* lines 157-178
RECURSIVE CssOfPalette(_, _, _)
CssOfPalette(colors, palette, b) ==
    IF b > Len(palette) THEN colors
    ELSE CssOfPalette(
             CssOfVariants(
                 SetProperty(colors, "--color-" \o palette[b][1] \o "-hue",
                             palette[b][2].hue),
                 palette[b][2], 1),
             palette, b + 1)

\* lines 180-182: JSON.stringify leaves out the undefined values
CssOfColors(palette) ==
    SelectSeq(CssOfPalette(<<>>, palette, 1), LAMBDA e : e[2] # Undefined)

\* what writeFileSync can do with each file of the export types: write it,
\* or throw (lines 147 and 185: the directory is missing, or the file cannot
\* be written)
Writables(types) == [{types[k] : k \in 1..Len(types)} -> BOOLEAN]

\* lines 139-193: the files after the export types from position k on; an
\* error of writeFileSync is caught and printed (lines 148-150, 186-188) and
\* the export goes on without that file
RECURSIVE Export(_, _, _, _, _)
Export(written, palette, types, k, writable) ==
    IF k > Len(types) THEN [files |-> written, thrown |-> FALSE]
    ELSE IF types[k] = "json"
    THEN IF ReplacerThrows(palette) THEN [files |-> written, thrown |-> TRUE]
         ELSE Export(IF writable["json"]
                     THEN Append(written, <<"json", JsonOfPalette(palette)>>)
                     ELSE written,
                     palette, types, k + 1, writable)
    ELSE Export(IF writable["css"]
                THEN Append(written, <<"css", CssOfColors(palette)>>)
                ELSE written,
                palette, types, k + 1, writable)

-----------------------------------------------------------------------------
(* The script, lines 198-298, and generatePalette, lines 108-196 *)

\* the ordered selections the multiselect of line 232 can return
RECURSIVE Orderings(_)
Orderings(S) ==
    IF S = {} THEN {<<>>}
    ELSE UNION {{<<x>> \o rest : rest \in Orderings(S \ {x})} : x \in S}

HueVariantLists ==
    UNION {Orderings(S) : S \in (SUBSET HueVariantNames) \ {{}}}

Init ==
    /\ pc = "load"
    /\ unrenderable \in Unrenderables
    /\ file = [readOk |-> FALSE, names |-> <<>>, codes |-> <<>>]
    /\ baseColors = Null
    /\ entries = <<>>
    /\ bi = 0
    /\ colorOutputFormat = ""
    /\ hueVariants = <<>>
    /\ calculationMethod = ""
    /\ message = ""
    /\ entered = ""
    /\ colorAmount = NaN
    /\ mixAmount = NaN
    /\ colorName = ""
    /\ hue = NoColor
    /\ result = NoResult
    /\ i = 0
    /\ vi = 0
    /\ stats = NoStats
    /\ calls = <<>>
    /\ files = <<>>
    /\ prev = <<>>
    /\ runNo = 1

\* lines 216-221: load the base colors, leave when there are none
LoadBaseColors ==
    /\ pc = "load"
    /\ \E readOk \in BOOLEAN, codes \in ColorFiles :
          LET loaded == getBaseColors(readOk, FileObject(codes))
          IN  /\ file' = [readOk |-> readOk,
                           names |-> SubSeq(BaseNames, 1, Len(codes)),
                           codes |-> codes]
              /\ baseColors' =
                     IF loaded.null THEN Null
                     ELSE Object([k \in 1..Len(loaded.object) |->
                                     <<loaded.object[k][1],
                                       CodeValue(loaded.object[k][2])>>])
              /\ pc' = IF loaded.null THEN "exit" ELSE "selectFormat"
    /\ UNCHANGED <<unrenderable, entries, bi, colorOutputFormat, hueVariants,
                   calculationMethod, message, entered, colorAmount,
                   mixAmount, colorName, hue, result, i, vi, stats, calls,
                   files, prev, runNo>>

\* lines 223-230
SelectFormat ==
    /\ pc = "selectFormat"
    /\ colorOutputFormat' \in ColorFormats
    /\ pc' = "selectVariants"
    /\ UNCHANGED <<unrenderable, file, baseColors, entries, bi, hueVariants,
                   calculationMethod, message, entered, colorAmount,
                   mixAmount, colorName, hue, result, i, vi, stats, calls,
                   files, prev, runNo>>

\* lines 232-240
SelectVariants ==
    /\ pc = "selectVariants"
    /\ hueVariants' \in HueVariantLists
    /\ pc' = "selectMethod"
    /\ UNCHANGED <<unrenderable, file, baseColors, entries, bi, colorOutputFormat,
                   calculationMethod, message, entered, colorAmount,
                   mixAmount, colorName, hue, result, i, vi, stats, calls,
                   files, prev, runNo>>

\* lines 242-256
SelectMethod ==
    /\ pc = "selectMethod"
    /\ calculationMethod' \in {"mixAmount", "colorAmount"}
    /\ pc' = "enterText"
    /\ UNCHANGED <<unrenderable, file, baseColors, entries, bi, colorOutputFormat,
                   hueVariants, message, entered, colorAmount, mixAmount,
                   colorName, hue, result, i, vi, stats, calls, files, prev,
                   runNo>>

\* Object.entries listing the properties last to first
ObjectEntriesReversed(object) ==
    [k \in 1..Len(object) |->
        <<object[Len(object) + 1 - k][1], object[Len(object) + 1 - k][2].code>>]

\* Object.entries(baseColors), line 115: the pairs as they are at the call
ObjectEntries(object) ==
    [k \in 1..Len(object) |-> <<object[k][1], object[k][2].code>>]

\* the call of generatePalette up to the loop of line 115
CallGeneratePalette(amount, mix) ==
    /\ colorAmount' = amount
    /\ mixAmount' = mix
    /\ entries' = ObjectEntries(baseColors.object)
    /\ bi' = 1
    /\ pc' = "generatePalette"

\* lines 257-277: a text is entered at the "mixAmount" prompt
EnterMixAmount(texts) ==
    /\ pc = "enterText"
    /\ calculationMethod = "mixAmount"
    /\ \E value \in texts :
          \E refusal \in {validateMixAmount(value)},
             mixAmountF \in {ParseFloat(value)} :
              /\ message' = refusal
              /\ IF refusal = ""
                 THEN /\ entered' = value
                      /\ CallGeneratePalette(ColorAmountOfMix(mixAmountF),
                                             mixAmountF)
                 ELSE UNCHANGED <<entered, colorAmount, mixAmount, entries, bi,
                                  pc>>
    /\ UNCHANGED <<unrenderable, file, baseColors, colorOutputFormat, hueVariants,
                   calculationMethod, colorName, hue, result, i, vi, stats,
                   calls, files, prev, runNo>>

\* lines 278-297: a text is entered at the "colorAmount" prompt
EnterColorAmount(texts) ==
    /\ pc = "enterText"
    /\ calculationMethod = "colorAmount"
    /\ \E value \in texts :
          \E refusal \in {validateColorAmount(value)},
             colorAmountI \in {ParseInt(value)} :
              /\ message' = refusal
              /\ IF refusal = ""
                 THEN /\ entered' = value
                      /\ CallGeneratePalette(colorAmountI,
                                             MixAmountOfCount(colorAmountI))
                 ELSE UNCHANGED <<entered, colorAmount, mixAmount, entries, bi,
                                  pc>>
    /\ UNCHANGED <<unrenderable, file, baseColors, colorOutputFormat, hueVariants,
                   calculationMethod, colorName, hue, result, i, vi, stats,
                   calls, files, prev, runNo>>

\* lines 115-123 and 58-79: the next base color is handed to computeVariants
CallComputeVariants ==
    /\ pc = "generatePalette"
    /\ bi <= Len(entries)
    /\ colorName' = entries[bi][1]
    /\ hue' = oklch(entries[bi][2])
    /\ result' = InitialResult(entries[bi][2], colorOutputFormat, unrenderable)
    /\ i' = 1
    /\ vi' = 1
    /\ stats' = NoStats
    /\ calls' = Append(calls, entries[bi][1])
    /\ pc' = "computeVariants"
    /\ UNCHANGED <<unrenderable, file, baseColors, entries, bi, colorOutputFormat,
                   hueVariants, calculationMethod, message, entered,
                   colorAmount, mixAmount, files, prev, runNo>>

\* lines 81-104: one pass of the inner loop body
VariantStep ==
    /\ pc = "computeVariants"
    /\ LoopRuns(i, colorAmount)
    /\ \E rounded \in {roundedMixAmount(mixAmount, i)} :
          /\ result' = LoopBody(rounded, hueVariants[vi], colorName, hue,
                                result, colorOutputFormat, unrenderable)
          /\ stats' = Count(stats,
                            Outcome(rounded, hueVariants[vi], hue, result,
                                    colorOutputFormat, unrenderable),
                            hueVariants[vi], i)
    /\ IF vi < Len(hueVariants)
       THEN /\ vi' = vi + 1
            /\ i' = i
       ELSE /\ vi' = 1
            /\ i' = i + 1
    /\ UNCHANGED <<pc, unrenderable, file, baseColors, entries, bi,
                   colorOutputFormat, hueVariants, calculationMethod, message,
                   entered, colorAmount, mixAmount, colorName, hue, calls,
                   files, prev, runNo>>

\* lines 105 and 125: computeVariants returns, palette[colorName] = variants
ReturnVariants ==
    /\ pc = "computeVariants"
    /\ ~LoopRuns(i, colorAmount)
    /\ baseColors' = Object([k \in 1..Len(baseColors.object) |->
                                IF baseColors.object[k][1] = colorName
                                THEN <<colorName, VariantsValue(result)>>
                                ELSE baseColors.object[k]])
    /\ bi' = bi + 1
    /\ pc' = "generatePalette"
    /\ UNCHANGED <<unrenderable, file, entries, colorOutputFormat, hueVariants,
                   calculationMethod, message, entered, colorAmount,
                   mixAmount, colorName, hue, result, i, vi, stats, calls,
                   files, prev, runNo>>

\* lines 128-196: the export types are selected and the files written
ExportPalette ==
    /\ pc = "generatePalette"
    /\ bi > Len(entries)
    /\ \E types \in ExportTypeLists : \E writable \in Writables(types) :
          LET out == Export(<<>>, baseColors.object, types, 1, writable)
          IN  /\ files' = out.files
              /\ pc' = IF out.thrown THEN "thrown" ELSE "done"
    /\ UNCHANGED <<unrenderable, file, baseColors, entries, bi, colorOutputFormat,
                   hueVariants, calculationMethod, message, entered,
                   colorAmount, mixAmount, colorName, hue, result, i, vi,
                   stats, calls, prev, runNo>>

Next ==
    \/ LoadBaseColors
    \/ SelectFormat
    \/ SelectVariants
    \/ SelectMethod
    \/ EnterMixAmount(StepTexts)
    \/ EnterColorAmount(CountTexts)
    \/ CallComputeVariants
    \/ VariantStep
    \/ ReturnVariants
    \/ ExportPalette

Spec == Init /\ [][Next]_vars

-----------------------------------------------------------------------------
(* The prompts alone: any text of at most MaxLen characters is entered *)

InitPrompt ==
    /\ pc = "selectMethod"
    /\ unrenderable = NoLevel
    /\ file = [readOk |-> TRUE, names |-> <<BaseNames[1]>>,
               codes |-> <<HexString(Black)>>]
    /\ baseColors = Object(<<<<BaseNames[1], CodeValue(HexString(Black))>>>>)
    /\ entries = <<>>
    /\ bi = 0
    /\ colorOutputFormat = "hex"
    /\ hueVariants = <<"tints">>
    /\ calculationMethod = ""
    /\ message = ""
    /\ entered = ""
    /\ colorAmount = NaN
    /\ mixAmount = NaN
    /\ colorName = ""
    /\ hue = NoColor
    /\ result = NoResult
    /\ i = 0
    /\ vi = 0
    /\ stats = NoStats
    /\ calls = <<>>
    /\ files = <<>>
    /\ prev = <<>>
    /\ runNo = 1

NextPrompt ==
    \/ SelectMethod
    \/ EnterMixAmount(PromptTexts)
    \/ EnterColorAmount(PromptTexts)

SpecPrompt == InitPrompt /\ [][NextPrompt]_vars

-----------------------------------------------------------------------------
(* Count mode over the whole accepted range of the step count *)

AllCountTexts == {ToString(n) : n \in 0..(MaxVariants + 1)}

InitCount ==
    /\ pc = "enterText"
    /\ unrenderable = NoLevel
    /\ \E code \in {HexString(Black), HexString(Gray)} :
          /\ file = [readOk |-> TRUE, names |-> <<BaseNames[1]>>,
                      codes |-> <<code>>]
          /\ baseColors = Object(<<<<BaseNames[1], CodeValue(code)>>>>)
    /\ entries = <<>>
    /\ bi = 0
    /\ colorOutputFormat = "hex"
    /\ hueVariants \in {<<"tints">>, <<"shades", "tones">>}
    /\ calculationMethod = "colorAmount"
    /\ message = ""
    /\ entered = ""
    /\ colorAmount = NaN
    /\ mixAmount = NaN
    /\ colorName = ""
    /\ hue = NoColor
    /\ result = NoResult
    /\ i = 0
    /\ vi = 0
    /\ stats = NoStats
    /\ calls = <<>>
    /\ files = <<>>
    /\ prev = <<>>
    /\ runNo = 1

NextCount ==
    \/ EnterColorAmount(AllCountTexts)
    \/ CallComputeVariants
    \/ VariantStep
    \/ ReturnVariants

SpecCount == InitCount /\ [][NextCount]_vars

-----------------------------------------------------------------------------
(* One base color *)

InitOne ==
    /\ pc = "selectVariants"
    /\ unrenderable \in Unrenderables
    /\ \E code \in {HexString(l) : l \in Levels} :
          /\ file = [readOk |-> TRUE, names |-> <<BaseNames[1]>>,
                      codes |-> <<code>>]
          /\ baseColors = Object(<<<<BaseNames[1], CodeValue(code)>>>>)
    /\ entries = <<>>
    /\ bi = 0
    /\ colorOutputFormat \in ColorFormats
    /\ hueVariants = <<>>
    /\ calculationMethod = ""
    /\ message = ""
    /\ entered = ""
    /\ colorAmount = NaN
    /\ mixAmount = NaN
    /\ colorName = ""
    /\ hue = NoColor
    /\ result = NoResult
    /\ i = 0
    /\ vi = 0
    /\ stats = NoStats
    /\ calls = <<>>
    /\ files = <<>>
    /\ prev = <<>>
    /\ runNo = 1

NextOne ==
    \/ SelectVariants
    \/ SelectMethod
    \/ EnterMixAmount(StepTexts)
    \/ EnterColorAmount(CountTexts)
    \/ CallComputeVariants
    \/ VariantStep
    \/ ReturnVariants
    \/ ExportPalette

SpecOne == InitOne /\ [][NextOne]_vars

-----------------------------------------------------------------------------
(* The loop of computeVariants is not interrupted: no await lies inside it *)

FairSpec == SpecOne /\ WF_vars(VariantStep) /\ WF_vars(ReturnVariants)

-----------------------------------------------------------------------------
(* Several base colors, among them names that are array indices, written  *)
(* in the file in any order and possibly more than once                   *)

OrderNames == {"red", "2", "10", "4294967295"}

OrderCodes == {HexString(Black), HexString(Gray)}

\* the file texts: some members, their names of OrderNames and repeatable
OrderTexts ==
    UNION {[1..n -> OrderNames \X OrderCodes] :
               n \in 0..(Cardinality(OrderNames) - 1)}

InitOrder ==
    /\ pc = "enterText"
    /\ unrenderable = NoLevel
    /\ \E text \in OrderTexts :
          /\ file = [readOk |-> TRUE,
                      names |-> [k \in 1..Len(text) |-> text[k][1]],
                      codes |-> [k \in 1..Len(text) |-> text[k][2]]]
          /\ baseColors =
                 LET loaded == getBaseColors(TRUE, JsonParse(text))
                 IN  Object([k \in 1..Len(loaded.object) |->
                                <<loaded.object[k][1],
                                  CodeValue(loaded.object[k][2])>>])
    /\ entries = <<>>
    /\ bi = 0
    /\ colorOutputFormat = "hex"
    /\ hueVariants \in {<<"tints">>, <<"shades", "tones">>}
    /\ calculationMethod \in {"mixAmount", "colorAmount"}
    /\ message = ""
    /\ entered = ""
    /\ colorAmount = NaN
    /\ mixAmount = NaN
    /\ colorName = ""
    /\ hue = NoColor
    /\ result = NoResult
    /\ i = 0
    /\ vi = 0
    /\ stats = NoStats
    /\ calls = <<>>
    /\ files = <<>>
    /\ prev = <<>>
    /\ runNo = 1

NextOrder ==
    \/ EnterMixAmount(StepTexts)
    \/ EnterColorAmount(CountTexts)
    \/ CallComputeVariants
    \/ VariantStep
    \/ ReturnVariants
    \/ ExportPalette

SpecOrder == InitOrder /\ [][NextOrder]_vars

-----------------------------------------------------------------------------
(* The two calculation methods: the program is run with a step size, then *)
(* again on the same file and selections with a step count                *)

\* the step sizes of the first run: the step sizes 1/(N+1), N in 1..99, that
\* a decimal text writes exactly, the others each written with the fewest
\* digits that parseFloat reads as the double of line 294, the step sizes of
\* the other specifications, and two with products halfway between two
\* hundredths
MethodStepTexts ==
    {"0.5", "0.25", "0.2", "0.125", "0.1", ".0625", "0.05", "0.04",
     "0.03125", "0.025", "0.02", "0.015625", "0.0125", "0.01"}
    \cup
    {"0.3333333333333333", "0.16666666666666666", "0.14285714285714285",
     "0.1111111111111111", "0.09090909090909091", "0.08333333333333333",
     "0.07692307692307693", "0.07142857142857142", "0.06666666666666667",
     "0.058823529411764705", "0.05555555555555555", "0.05263157894736842",
     "0.047619047619047616", "0.045454545454545456", "0.043478260869565216",
     "0.041666666666666664", "0.038461538461538464", "0.037037037037037035",
     "0.03571428571428571", "0.034482758620689655", "0.03333333333333333",
     "0.03225806451612903", "0.030303030303030304", "0.029411764705882353",
     "0.02857142857142857", "0.027777777777777776", "0.02702702702702703",
     "0.02631578947368421", "0.02564102564102564", "0.024390243902439025",
     "0.023809523809523808", "0.023255813953488372", "0.022727272727272728",
     "0.022222222222222223", "0.021739130434782608", "0.02127659574468085",
     "0.020833333333333332", "0.02040816326530612", "0.0196078431372549",
     "0.019230769230769232", "0.018867924528301886", "0.018518518518518517",
     "0.01818181818181818", "0.017857142857142856", "0.017543859649122806",
     "0.017241379310344827", "0.01694915254237288", "0.016666666666666666",
     "0.01639344262295082", "0.016129032258064516", "0.015873015873015872",
     "0.015384615384615385", "0.015151515151515152", "0.014925373134328358",
     "0.014705882352941176", "0.014492753623188406", "0.014285714285714285",
     "0.014084507042253521", "0.013888888888888888", "0.0136986301369863",
     "0.013513513513513514", "0.013333333333333334", "0.013157894736842105",
     "0.012987012987012988", "0.01282051282051282", "0.012658227848101266",
     "0.012345679012345678", "0.012195121951219513", "0.012048192771084338",
     "0.011904761904761904", "0.011764705882352941", "0.011627906976744186",
     "0.011494252873563218", "0.011363636363636364", "0.011235955056179775",
     "0.011111111111111112", "0.01098901098901099", "0.010869565217391304",
     "0.010752688172043012", "0.010638297872340425", "0.010526315789473684",
     "0.010416666666666666", "0.010309278350515464", "0.01020408163265306",
     "0.010101010101010102"}
    \cup StepTexts \cup {".015", "0.045"}

\* generatePalette has left the loop of line 115
GenerationDone == pc = "generatePalette" /\ bi > Len(entries)

\* the run with the step size is kept in prev and the script is started again
\* up to the prompt of case "colorAmount"
RunWithColorAmount ==
    /\ GenerationDone
    /\ runNo = 1
    /\ prev' = [palette |-> baseColors.object, colorAmount |-> colorAmount,
                 mixAmount |-> mixAmount, stats |-> stats]
    /\ runNo' = 2
    /\ baseColors' = Object([k \in 1..Len(entries) |->
                                <<entries[k][1], CodeValue(entries[k][2])>>])
    /\ calculationMethod' = "colorAmount"
    /\ calls' = <<>>
    /\ pc' = "enterText"
    /\ UNCHANGED <<unrenderable, file, entries, bi, colorOutputFormat,
                   hueVariants, message, entered, colorAmount, mixAmount,
                   colorName, hue, result, i, vi, stats, files>>

InitMethods ==
    /\ pc = "enterText"
    /\ unrenderable = NoLevel
    /\ \E code \in {HexString(Black), HexString(Gray)} :
          /\ file = [readOk |-> TRUE, names |-> <<BaseNames[1]>>,
                      codes |-> <<code>>]
          /\ baseColors = Object(<<<<BaseNames[1], CodeValue(code)>>>>)
    /\ entries = <<>>
    /\ bi = 0
    /\ colorOutputFormat \in {"hex", "rgb"}
    /\ hueVariants \in {<<"tints">>, <<"shades", "tones">>}
    /\ calculationMethod = "mixAmount"
    /\ message = ""
    /\ entered = ""
    /\ colorAmount = NaN
    /\ mixAmount = NaN
    /\ colorName = ""
    /\ hue = NoColor
    /\ result = NoResult
    /\ i = 0
    /\ vi = 0
    /\ stats = NoStats
    /\ calls = <<>>
    /\ files = <<>>
    /\ prev = <<>>
    /\ runNo = 1

\* the second run enters the step count of the first run, or one less
NextMethods ==
    \/ EnterMixAmount(MethodStepTexts)
    \/ EnterColorAmount({ToString(colorAmount.num - 1),
                         ToString(colorAmount.num)})
    \/ CallComputeVariants
    \/ VariantStep
    \/ ReturnVariants
    \/ RunWithColorAmount

SpecMethods == InitMethods /\ [][NextMethods]_vars

-----------------------------------------------------------------------------
(* Properties *)

FileHasBadColor ==
    /\ file.readOk
    /\ \E k \in 1..Len(file.codes) : parse(file.codes[k]) = NoLevel

\* C1: when a value of the loaded mapping is no color, the run is rejected
\* before generation: computeVariants is never invoked, not even for the
\* valid colors before the bad one, and no file is exported.
C1_WholeBatchRejected ==
    (pc # "load" /\ FileHasBadColor) =>
        /\ pc = "exit"
        /\ baseColors.null
        /\ calls = <<>>
        /\ files = <<>>

C1_Witness ==
    /\ pc = "exit"
    /\ file.readOk
    /\ Len(file.codes) = 2
    /\ parse(file.codes[1]) # NoLevel
    /\ parse(file.codes[2]) = NoLevel

\* C2: generatePalette is reached only when the entered count is a number
\* in [1,100] (count mode) or the entered step size is strictly between 0
\* and 1 with floor(1/stepSize) <= 100 (step-size mode).
C2_OnlyValidParametersReachGeneration ==
    pc = "generatePalette" =>
        IF calculationMethod = "colorAmount"
        THEN \E n \in {ParseInt(entered)} :
                 /\ ~n.nan
                 /\ Ge(n, Num(MinVariants, 1))
                 /\ Le(n, Num(MaxVariants, 1))
        ELSE \E size \in {ParseFloat(entered)} :
                 /\ ~size.nan
                 /\ Gt(size, Num(0, 1))
                 /\ Lt(size, Num(1, 1))
                 /\ Le(Floor(Inverse(size)), Num(MaxImpliedAmount, 1))

\* C3: a candidate whose formatting yields undefined is omitted: no accepted
\* variant carries an undefined color value.
C3_NoUndefinedVariant ==
    \A k \in HueVariantNames : \A e \in 1..Len(result[k]) :
        result[k][e][2] # Undefined

\* the three reference colors as the output mode writes them
FormattedReferences ==
    {format(colorOutputFormat, oklch(m), unrenderable) : m \in MixColorValues}
        \ {Undefined}

\* C4: in every output mode no accepted variant is written like one of the
\* three reference colors in that mode, or like the base hue.
C4_NoReferenceOrHueVariant ==
    pc = "computeVariants" =>
        \A k \in HueVariantNames : \A e \in 1..Len(result[k]) :
            /\ result[k][e][2] \notin FormattedReferences
            /\ result[k][e][2] = Undefined
               \/ result[k][e][2] # format(colorOutputFormat, hue, unrenderable)

\* the reference colors in any notation
ReferenceStrings ==
    UNION {{HexString(l), RgbString(l), HslString(l)} :
              l \in {White, Black, Gray}}

\* a pass of the inner loop body has been made
StepTaken ==
    /\ pc = "computeVariants"
    /\ pc' = "computeVariants"
    /\ stats'.visited = stats.visited + 1

\* C5: a candidate equal to an accepted shade string is discarded whatever
\* its kind; a candidate equal to no shade string, no reference color and
\* not to the base hue is appended, also when it equals a tint or tone entry.
C5_DedupAsymmetry ==
    [][StepTaken =>
        LET variant == hueVariants[vi]
            rounded == roundedMixAmount(mixAmount, i)
            c       == Candidate(hue, variant, rounded, colorOutputFormat,
                                 unrenderable)
        IN  ~IsPastEnd(rounded) =>
              /\ c \in ShadeColors(result) => result' = result
              /\ ( /\ c \notin ShadeColors(result)
                   /\ c \notin ReferenceStrings
                   /\ c # format(colorOutputFormat, hue, unrenderable) )
                 => /\ Len(result'[variant]) = Len(result[variant]) + 1
                    /\ result'[variant][Len(result'[variant])][2] = c
    ]_vars

\* position of a kind in the requested list
PositionOf(variant) ==
    CHOOSE k \in 1..Len(hueVariants) : hueVariants[k] = variant

C5_Witness ==
    /\ pc = "computeVariants"
    /\ \E k \in 1..Len(hueVariants) : hueVariants[k] = "shades"
    /\ stats.dropped["tones"] > 0
    /\ \E a \in 1..Len(result.tints), b \in 1..Len(result.tones) :
          /\ result.tints[a][2] = result.tones[b][2]
          /\ result.tints[a][2] # Undefined
          /\ \/ stats.steps["tints"][a] < stats.steps["tones"][b]
             \/ /\ stats.steps["tints"][a] = stats.steps["tones"][b]
                /\ PositionOf("tints") < PositionOf("tones")

\* the loop of computeVariants has run to its end
LoopDone == pc = "computeVariants" /\ ~LoopRuns(i, colorAmount)

Requested(variant) == \E k \in 1..Len(hueVariants) : hueVariants[k] = variant

\* the step indices 1..n whose rounded fraction is 1 or more
PastEndSteps(n) ==
    {step \in 1..n : Ge(roundedMixAmount(mixAmount, step), Num(1, 1))}

\* C6: for a step count N the number of variants accepted for a requested
\* kind is at most N, and is N minus the step indices whose rounded fraction
\* is >= 1 minus the candidates of that kind the dedup rule discarded.
C6_VariantCount ==
    (LoopDone /\ ~colorAmount.nan) =>
        \A k \in HueVariantNames :
            IF Requested(k)
            THEN /\ Len(result[k]) <= colorAmount.num
                 /\ Len(result[k]) =
                        colorAmount.num
                        - Cardinality(PastEndSteps(colorAmount.num))
                        - stats.dropped[k]
            ELSE Len(result[k]) = 0

C6_Witness ==
    /\ LoopDone
    /\ ~colorAmount.nan
    /\ colorAmount.num = 4
    /\ PastEndSteps(4) # {}
    /\ \E k \in HueVariantNames :
          Requested(k) /\ stats.dropped[k] > 0 /\ Len(result[k]) > 0

\* C7: in count mode with N in [1,100] every step index i in 1..N has a
\* rounded fraction below 1, so no pair is skipped by the f >= 1 test.
C7_CountModeBelowOne ==
    (pc = "computeVariants" /\ calculationMethod = "colorAmount") =>
        /\ colorAmount.num \in MinVariants..MaxVariants
        /\ \A k \in HueVariantNames : stats.skipped[k] = 0
        /\ i <= colorAmount.num =>
               Lt(roundedMixAmount(mixAmount, i), Num(1, 1))

C7_Witness ==
    /\ LoopDone
    /\ calculationMethod = "colorAmount"
    /\ colorAmount.num = MaxVariants
    /\ stats.visited = MaxVariants * Len(hueVariants)

SingularOf == [tints |-> "tint", shades |-> "shade", tones |-> "tone"]

RECURSIVE IsSubsequence(_, _)
IsSubsequence(s, t) ==
    IF s = <<>> THEN TRUE
    ELSE IF t = <<>> THEN FALSE
    ELSE IF Head(s) = Head(t) THEN IsSubsequence(Tail(s), Tail(t))
    ELSE IsSubsequence(s, Tail(t))

Titles(list) == [e \in 1..Len(list) |-> list[e][1]]

\* C8: the variant accepted for step index i is named base-kind-p with
\* p = 100 * f, f the fraction rounded to 2 decimals that was compared with 1
\* and used for the blend, so p < 100; for base "red" and step count 3 the
\* tint names are drawn in order from red-tint-25, red-tint-50, red-tint-75.
C8_NameMatchesFraction ==
    pc = "computeVariants" =>
        /\ \A k \in HueVariantNames : \A e \in 1..Len(result[k]) :
              LET step == stats.steps[k][e]
                  p    == roundedMixAmount(mixAmount, step).num
              IN  /\ p < 100
                  /\ result[k][e][1] =
                         colorName \o "-" \o SingularOf[k] \o "-" \o ToString(p)
                  /\ result[k][e][2] =
                         format(colorOutputFormat,
                                blend(hue, mixColors[k], Num(p, 100)),
                                unrenderable)
        /\ (colorName = "red" /\ calculationMethod = "colorAmount"
                /\ entered = "3") =>
              \A k \in HueVariantNames :
                  IsSubsequence(Titles(result[k]),
                      <<"red-" \o SingularOf[k] \o "-25",
                        "red-" \o SingularOf[k] \o "-50",
                        "red-" \o SingularOf[k] \o "-75">>)

C8_Witness ==
    /\ LoopDone
    /\ colorName = "red"
    /\ calculationMethod = "colorAmount"
    /\ entered = "3"
    /\ Titles(result.tints) = <<"red-tint-25", "red-tint-50", "red-tint-75">>
    /\ Len(result.shades) = 2

C10_Bounded ==
    pc = "computeVariants" =>
        IF colorAmount.nan THEN stats.visited = 0
        ELSE /\ colorAmount.num <= MaxVariants
             /\ stats.evaluated <= colorAmount.num * Len(hueVariants)
             /\ LoopDone => stats.visited = colorAmount.num * Len(hueVariants)

\* C10: generation for one base color terminates, evaluates at most
\* stepCount * |kinds| candidates with stepCount <= 100, and a skipped or
\* discarded pair does not end the loop: every pair is visited.
C10_GenerationTerminates ==
    /\ []C10_Bounded
    /\ (pc = "computeVariants") ~> (pc = "generatePalette")

C10_Witness ==
    /\ LoopDone
    /\ Len(hueVariants) = 3
    /\ \E k \in HueVariantNames : stats.skipped[k] > 0
    /\ \E k \in HueVariantNames : stats.dropped[k] > 0
    /\ stats.visited = colorAmount.num * 3

\* the input mapping: the object parsed from the file as it was read
InputMapping == JsonParse(FileText(file.names, file.codes))

\* number of base colors whose variants are written into the palette
Finished == IF pc = "computeVariants" THEN Len(calls) - 1 ELSE Len(calls)

\* C11: base colors are processed one after another in the order of the
\* input mapping, each from its original input value; the palette lists
\* them in that order, every base color before the current one holds its
\* finished variants, and every base color still to be processed holds the
\* text that was read for it, whatever was written into the palette before.
C11_OneBaseColorAfterAnother ==
    pc \in {"generatePalette", "computeVariants", "done", "thrown"} =>
        LET input   == InputMapping
            palette == baseColors.object
        IN  /\ Len(palette) = Len(input)
            /\ \A k \in 1..Len(input) : palette[k][1] = input[k][1]
            /\ Len(calls) <= Len(input)
            /\ \A k \in 1..Len(calls) : calls[k] = input[k][1]
            /\ pc = "computeVariants" =>
                   /\ colorName = input[Len(calls)][1]
                   /\ hue = oklch(input[Len(calls)][2])
            /\ \A k \in 1..Len(input) :
                   IF k <= Finished
                   THEN /\ ~palette[k][2].isCode
                        /\ palette[k][2].hue =
                               InitialResult(input[k][2], colorOutputFormat,
                                             unrenderable).hue
                        /\ \A kind \in HueVariantNames :
                               \A j \in 1..Len(palette[k][2][kind]) :
                                   SubSeq(palette[k][2][kind][j][1], 1,
                                          Len(input[k][1]) + 1) =
                                       input[k][1] \o "-"
                   ELSE palette[k][2] = CodeValue(input[k][2])
            /\ pc \in {"done", "thrown"} => Len(calls) = Len(input)

\* the second of two base colors is being processed, the file wrote them in
\* another order than the mapping lists them and with different values, and
\* the first one holds accepted variants
C11_Witness ==
    /\ pc = "computeVariants"
    /\ Len(calls) = 2
    /\ Len(file.names) = 2
    /\ file.names[1] = InputMapping[2][1]
    /\ InputMapping[1][2] # InputMapping[2][2]
    /\ baseColors.object[1][2].tints # <<>>
    /\ result.tints # <<>>

\* every list of result holds one entry per accepted step index, the step
\* indices strictly increasing, and a kind that is not requested holds none
C12_Ordered ==
    pc = "computeVariants" =>
        \A k \in HueVariantNames :
            /\ ~Requested(k) => result[k] = <<>>
            /\ Len(stats.steps[k]) = Len(result[k])
            /\ \A e \in 1..Len(result[k]) :
                   /\ stats.steps[k][e] \in 1..(i - 1) \cup
                          (IF PositionOf(k) < vi THEN {i} ELSE {})
                   /\ e > 1 => stats.steps[k][e - 1] < stats.steps[k][e]
                   /\ result[k][e][1] =
                          title(colorName, k,
                                roundedMixAmount(mixAmount, stats.steps[k][e]))

\* a pass of the loop leaves a list as it is or adds one entry at its end
C12_Grows ==
    (pc = "computeVariants" /\ pc' = "computeVariants") =>
        \A k \in HueVariantNames :
            \/ result'[k] = result[k]
            \/ /\ Len(result'[k]) = Len(result[k]) + 1
               /\ SubSeq(result'[k], 1, Len(result[k])) = result[k]

\* C12: during a call of computeVariants each kind's sequence only grows at
\* its end (no entry is removed, replaced or reordered), its entries are in
\* strictly increasing step-index order, and a kind that was not requested
\* keeps an empty sequence.
C12_AppendOnlyOrdered == []C12_Ordered /\ [][C12_Grows]_vars

\* two kinds are requested and one is not, a list holds two entries or more,
\* and a candidate has been discarded
C12_Witness ==
    /\ pc = "computeVariants"
    /\ Len(hueVariants) = 2
    /\ \E k \in HueVariantNames : Requested(k) /\ Len(result[k]) >= 2
    /\ \E k \in HueVariantNames : stats.dropped[k] > 0
    /\ \E k \in HueVariantNames : ~Requested(k) /\ result[k] = <<>>

\* C13: for every accepted parameter pair the names of the variants accepted
\* into one kind's sequence are pairwise distinct: two different step indices
\* never yield the same rounded percentage in the same sequence.
C13_UniqueNames ==
    pc = "computeVariants" =>
        \A k \in HueVariantNames :
            \A a, b \in 1..Len(result[k]) :
                a # b => result[k][a][1] # result[k][b][1]

\* the run with the step count N has finished after a run whose step size
\* was the double 1/(N+1)
SameStepSize ==
    /\ GenerationDone
    /\ runNo = 2
    /\ ~colorAmount.nan
    /\ colorAmount.num \in 1..(MaxVariants - 1)
    /\ ~prev.mixAmount.nan
    /\ Compare(prev.mixAmount, Num(1, colorAmount.num + 1)) = 0

\* C14: for N in [1,99], step-size mode with step size 1/(N+1) derives the
\* step count N+1, skips the last step index for every requested kind because
\* its fraction is >= 1, and produces exactly the palette that count mode
\* with N produces for the same base color, kinds and output mode.
C14_MethodsAgree ==
    SameStepSize =>
        /\ prev.colorAmount = Num(colorAmount.num + 1, 1)
        /\ \A k \in HueVariantNames :
               prev.stats.skipped[k] = IF Requested(k) THEN 1 ELSE 0
        /\ \A k \in HueVariantNames : stats.skipped[k] = 0
        /\ baseColors.object = prev.palette

\* the N for which 1 divided by the double 1/(N+1) is below N+1
RoundedBelow == {92, 98}

\* C14, amended: for N in [1,99], step-size mode with the double nearest to
\* 1/(N+1) as step size produces exactly the palette that count mode with N
\* produces for the same base color, kinds and output mode.  It derives the
\* step count N+1 and skips the last step index for every requested kind,
\* except for N = 92 and N = 98, where it derives the step count N and skips
\* no index.
C14_MethodsAgreeOnPalette ==
    SameStepSize =>
        /\ baseColors.object = prev.palette
        /\ \A k \in HueVariantNames : stats.skipped[k] = 0
        /\ IF colorAmount.num \in RoundedBelow
           THEN /\ prev.colorAmount = colorAmount
                /\ \A k \in HueVariantNames : prev.stats.skipped[k] = 0
           ELSE /\ prev.colorAmount = Num(colorAmount.num + 1, 1)
                /\ \A k \in HueVariantNames :
                       prev.stats.skipped[k] = IF Requested(k) THEN 1 ELSE 0

\* both runs have finished with the step size 1/93, which a decimal text
\* cannot write exactly, the first run with the derived step count 92, and
\* the palette holds accepted variants
C14_Witness ==
    /\ SameStepSize
    /\ colorAmount.num = 92
    /\ prev.colorAmount = colorAmount
    /\ \E k \in HueVariantNames : Len(baseColors.object[1][2][k]) >= 3

=============================================================================
